---- MODULE Spec2Model ----
(***************************************************************************)
(* A model of peer.py: the connection registry, the flooding broadcast,   *)
(* the local outbound queue and the shutdown sequence of a Peer.          *)
(*                                                                         *)
(* Nodes "N" and "F" are Peers whose connections lead to remote ends that *)
(* are not modelled as Peers (they send payloads and go away): N is       *)
(* followed from start() to the end of the entry point, F while its       *)
(* sessions receive and re-flood payloads.  Nodes "A", "B", "C" are three *)
(* Peers linked as a chain A-B-C.                                          *)
(*                                                                         *)
(* Every region the code runs under self.lock is one atomic step.  Of the *)
(* log sink only the None that ends it is followed; of the console, the   *)
(* lines the claims speak of.                                              *)
(***************************************************************************)
EXTENDS Integers, Sequences, FiniteSets, TLC

\* ------------------------------------------------------------------ bounds
MaxConn == 1      \* connections node N accepts or dials
MaxInput == 1     \* text lines typed at node N
FloodConns == 3   \* connections of node F
MaxRemote == 1    \* payloads the remote ends of node F send
ChainInput == 2   \* text lines typed at node A

\* --------------------------------------------------------------- constants
Delim == 124      \* "|"
BadByte == 255    \* a byte no UTF-8 text contains
NoSock == 0       \* sender_socket = None

Nodes == {"N", "F", "A", "B", "C"}
ChainNodes == {"A", "B", "C"}

\* The connection sockets.  1..MaxConn belong to node N, 201..200+FloodConns
\* to node F; the chain's four endpoints are 101 (A's end to B), 102 (B's
\* end to A), 103 (B's end to C), 104 (C's end to B).
LifeSocks == 1..MaxConn
FloodSocks == 201..(200 + FloodConns)
EnvSocks == LifeSocks \cup FloodSocks
ChainSocks == {101, 102, 103, 104}
Socks == EnvSocks \cup ChainSocks

Owner(s) ==
  IF s \in LifeSocks THEN "N"
  ELSE IF s \in FloodSocks THEN "F"
  ELSE IF s = 101 THEN "A"
  ELSE IF s = 104 THEN "C"
  ELSE "B"

\* The other end of a chain socket; NoSock for a socket of node N or F.
Remote(s) ==
  IF s = 101 THEN 102
  ELSE IF s = 102 THEN 101
  ELSE IF s = 103 THEN 104
  ELSE IF s = 104 THEN 103
  ELSE NoSock

\* Threads that call broadcast: a session handler is named by its socket,
\* the queue consumer of a node by a negative number.
ConsumerTid(n) ==
  IF n = "N" THEN -1 ELSE IF n = "F" THEN -2 ELSE IF n = "A" THEN -3
  ELSE IF n = "B" THEN -4 ELSE -5
ConsumerTids == {ConsumerTid(n) : n \in Nodes}
Threads == Socks \cup ConsumerTids
NodeOf(t) ==
  IF t \in Socks THEN Owner(t) ELSE CHOOSE n \in Nodes : ConsumerTid(n) = t

\* self.me, as bytes: one letter per node (never the delimiter).
Me(n) ==
  IF n = "N" THEN <<78>> ELSE IF n = "F" THEN <<70>> ELSE IF n = "A" THEN <<65>>
  ELSE IF n = "B" THEN <<66>> ELSE <<67>>

\* The k-th text line typed: the digit k.
TextOf(k) == <<48 + k>>

\* How many text lines are typed at node n.
InputBound(n) ==
  IF n = "N" THEN MaxInput ELSE ChainInput

\* Queue items: a text line, or None.
TextItem(txt) == [kind |-> "text", text |-> txt]
NoneItem == [kind |-> "none", text |-> <<>>]

\* ---------------------------------------------------------- pure helpers
RECURSIVE IndexOf(_, _, _)
\* The least i >= from with b[i] = x, or 0.
IndexOf(b, x, from) ==
  IF from > Len(b) THEN 0
  ELSE IF b[from] = x THEN from
  ELSE IndexOf(b, x, from + 1)

\* message_bytes.decode("utf-8") succeeds
Decodable(b) == \A i \in 1..Len(b) : b[i] # BadByte

\* message.split("|", 1) yields two parts
HasDelim(b) == IndexOf(b, Delim, 1) # 0

\* ParseOk without the decoding: any bytes with a delimiter pass
ParseOk_NoDecode(b) == HasDelim(b)

\* lines 117-122: the try block raises nothing
ParseOk(b) == Decodable(b) /\ HasDelim(b)

\* remetente, conteudo = message.split("|", 1)
Remetente(b) == SubSeq(b, 1, IndexOf(b, Delim, 1) - 1)
Conteudo(b) == SubSeq(b, IndexOf(b, Delim, 1) + 1, Len(b))

\* FormatMessage without the delimiter
FormatMessage_NoDelim(n, txt) == Me(n) \o txt

\* f"{self.me}|{msg_content}".encode("utf-8")
FormatMessage(n, txt) == Me(n) \o <<Delim>> \o txt

\* QueueGet taking the newest item
QueueGet_Newest(q) == <<q[Len(q)], SubSeq(q, 1, Len(q) - 1)>>

\* queue.Queue.get(): the oldest item and the rest
QueueGet(q) == <<Head(q), Tail(q)>>

\* Without losing the update: the entry stays
Without_Lost(seq, s) == seq

\* del self.peers[s] / self.peers.pop(s, None)
Without(seq, s) == SelectSeq(seq, LAMBDA x : x # s)
InSeq(seq, s) == \E i \in 1..Len(seq) : seq[i] = s
\* self.peers[s] = addr: a new key goes last, a present key keeps its place
DictSet(seq, s) == IF InSeq(seq, s) THEN seq ELSE Append(seq, s)
SeqSet(seq) == {seq[i] : i \in 1..Len(seq)}

\* The payloads a remote end sends: an envelope whose content holds the
\* delimiter, text without a delimiter, bytes that are not UTF-8 (with a
\* delimiter).
RemotePayloads ==
  { <<82, Delim, 120, Delim>>, <<104>>, <<BadByte, Delim, 120>> }

\* ------------------------------------------------------------------- state
VARIABLES
  registry,         \* node -> self.peers, its keys in insertion order
  event,            \* node -> self.shutdown_event is set
  server,           \* node -> self.server_socket: "open" | "closed"
  queue,            \* node -> self.msg_queue
  msgSentinelSent,  \* node -> self.msg_sentinel_sent
  logSentinelSent,  \* node -> self.log_sentinel_sent
  pcMain,           \* node -> where the main thread is
  sdCall,           \* node -> invocations of shutdown() begun
  pcInput,          \* node -> where user_input_thread is
  nTyped,           \* node -> text lines typed so far
  pcListener,       \* node -> where listen_for_connections is
  pcConsumer,       \* node -> where process_messages is
  sockState,        \* socket -> "none" | "open" | "closed" | "refused"
  inbox,            \* socket -> payloads that arrived and were not read
  hpc,              \* socket -> where its handle_client thread is
  bsnap,            \* thread -> broadcast's local sockets
  bidx,             \* thread -> broadcast's position in sockets
  bmsg,             \* thread -> broadcast's message_bytes
  bexcl,            \* thread -> broadcast's sender_socket
  \* what the claims observe
  batt,             \* thread -> send attempts of the running broadcast
  said,             \* node -> "[.. disse]" lines printed, in order
  bcBegun,          \* node -> texts whose local broadcast began, in order
  bcDone,           \* node -> texts whose local broadcast returned, in order
  msgSentinels,     \* node -> None items ever put on msg_queue
  logSentinels,     \* node -> None items ever put on log_queue
  closeCalls,       \* socket -> close() calls issued on it
  sdClosed,         \* sockets force-closed by shutdown()
  removed,          \* sockets a "[PEER REMOVIDO]" line was printed and a
                    \* "Peer removido" entry logged for (lines 163-164)
  cleanups,         \* socket -> times its handler printed "[DESCONECTADO]"
                    \* and logged "Conexão encerrada" (lines 140-142)
  envSent,          \* payloads the remote ends have sent
  dialErrors,       \* sockets whose failed dial was printed ("[ERRO]") and
                    \* logged (lines 202-205)
  lockIO            \* sockets shut down or closed with self.lock held

mainVars == <<pcMain, sdCall>>
inputVars == <<pcInput, nTyped>>
msgSentVars == <<msgSentinelSent, msgSentinels>>
logSentVars == <<logSentinelSent, logSentinels>>
closeVars == <<sockState, closeCalls, sdClosed>>
envVars == <<inbox, envSent>>
bcVars == <<bsnap, bidx, bmsg, bexcl, batt>>
histVars == <<said, bcBegun, bcDone, removed, cleanups>>
noteVars == <<dialErrors, lockIO>>

vars ==
  <<registry, event, server, queue, msgSentinelSent, logSentinelSent, pcMain,
    sdCall, pcInput, nTyped, pcListener, pcConsumer, sockState, inbox,
    hpc, bsnap, bidx, bmsg, bexcl, batt, said, bcBegun, bcDone, msgSentinels,
    logSentinels, closeCalls, sdClosed, removed, cleanups, envSent,
    dialErrors, lockIO>>

\* The state after Peer.__init__ and the three thread starts of start(),
\* with the given connections already registered and their handlers in
\* the receive loop.
InitWith(reg) ==
  LET on == DOMAIN reg
      socks == {s \in Socks : Owner(s) \in on}
      thr == socks \cup {ConsumerTid(n) : n \in on}
  IN
    /\ registry = reg
    /\ event = [n \in on |-> FALSE]
    /\ server = [n \in on |-> "open"]
    /\ queue = [n \in on |-> <<>>]
    /\ msgSentinelSent = [n \in on |-> FALSE]
    /\ logSentinelSent = [n \in on |-> FALSE]
    /\ pcMain = [n \in on |-> "join"]
    /\ sdCall = [n \in on |-> 0]
    /\ pcInput = [n \in on |-> "check"]
    /\ nTyped = [n \in on |-> 0]
    /\ pcListener = [n \in on |-> "check"]
    /\ pcConsumer = [n \in on |-> "get"]
    /\ sockState = [s \in socks |-> IF InSeq(reg[Owner(s)], s) THEN "open" ELSE "none"]
    /\ inbox = [s \in socks |-> <<>>]
    /\ hpc = [s \in socks |-> IF InSeq(reg[Owner(s)], s) THEN "loop" ELSE "none"]
    /\ bsnap = [t \in thr |-> <<>>]
    /\ bidx = [t \in thr |-> 0]
    /\ bmsg = [t \in thr |-> <<>>]
    /\ bexcl = [t \in thr |-> NoSock]
    /\ batt = [t \in thr |-> <<>>]
    /\ said = [n \in on |-> <<>>]
    /\ bcBegun = [n \in on |-> <<>>]
    /\ bcDone = [n \in on |-> <<>>]
    /\ msgSentinels = [n \in on |-> 0]
    /\ logSentinels = [n \in on |-> 0]
    /\ closeCalls = [s \in socks |-> 0]
    /\ sdClosed = {}
    /\ removed = {}
    /\ cleanups = [s \in socks |-> 0]
    /\ envSent = 0
    /\ dialErrors = {}
    /\ lockIO = {}

\* Node N right after start() started its threads: no connection yet.
Init == InitWith([n \in {"N"} |-> <<>>])

\* ------------------------------------------------------- session handler
\* lines 99-103: the "connected" notification, then register under the lock
HandlerStart(s) ==
  /\ hpc[s] = "spawned"
  /\ registry' = [registry EXCEPT ![Owner(s)] = DictSet(@, s)]
  /\ hpc' = [hpc EXCEPT ![s] = "loop"]
  /\ UNCHANGED <<noteVars, event, server, queue, msgSentVars, logSentVars, mainVars,
                 inputVars, pcListener, pcConsumer, closeVars, envVars, bcVars,
                 histVars>>

\* HandlerLoopCheck leaving the function without its finally block when the
\* event is set
HandlerLoopCheck_NoFinally(s) ==
  /\ hpc[s] = "loop"
  /\ hpc' = [hpc EXCEPT ![s] = IF event[Owner(s)] THEN "done" ELSE "recv"]
  /\ UNCHANGED <<noteVars, registry, event, server, queue, msgSentVars, logSentVars,
                 mainVars, inputVars, pcListener, pcConsumer, closeVars,
                 envVars, bcVars, histVars>>

\* line 106: while not self.shutdown_event.is_set()
HandlerLoopCheck(s) ==
  /\ hpc[s] = "loop"
  /\ hpc' = [hpc EXCEPT ![s] = IF event[Owner(s)] THEN "cleanup" ELSE "recv"]
  /\ UNCHANGED <<noteVars, registry, event, server, queue, msgSentVars, logSentVars,
                 mainVars, inputVars, pcListener, pcConsumer, closeVars,
                 envVars, bcVars, histVars>>

\* lines 108-130, a non-empty payload: parse; on failure continue, else
\* print, log and call broadcast(message_bytes, client_socket)
HandlerRecvPayload(s) ==
  /\ hpc[s] = "recv"
  /\ sockState[s] = "open"
  /\ inbox[s] # <<>>
  /\ inbox' = [inbox EXCEPT ![s] = Tail(@)]
  /\ LET b == Head(inbox[s]) IN
       IF ParseOk(b)
       THEN /\ said' = [said EXCEPT ![Owner(s)] =
                          Append(@, <<Remetente(b), Conteudo(b)>>)]
            /\ bmsg' = [bmsg EXCEPT ![s] = b]
            /\ bexcl' = [bexcl EXCEPT ![s] = s]
            /\ hpc' = [hpc EXCEPT ![s] = "bc_snap"]
       ELSE /\ hpc' = [hpc EXCEPT ![s] = "loop"]
            /\ UNCHANGED <<said, bmsg, bexcl>>
  /\ UNCHANGED <<noteVars, registry, event, server, queue, msgSentVars, logSentVars,
                 mainVars, inputVars, pcListener, pcConsumer, closeVars, envSent,
                 bsnap, bidx, batt, bcBegun, bcDone, removed, cleanups>>

\* lines 108-112: the socket was closed under the thread (by shutdown()
\* or by a broadcast that failed to send on it): recv raises OSError: break
HandlerRecvClosed(s) ==
  /\ hpc[s] = "recv"
  /\ sockState[s] = "closed"
  /\ hpc' = [hpc EXCEPT ![s] = "cleanup"]
  /\ UNCHANGED <<noteVars, registry, event, server, queue, msgSentVars, logSentVars,
                 mainVars, inputVars, pcListener, pcConsumer, closeVars,
                 envVars, bcVars, histVars>>

\* lines 108-115: the remote end reset the connection (recv raises), or
\* closed it after all it sent was read (recv returns b""): break
HandlerRecvRemoteEnd(s) ==
  /\ hpc[s] = "recv"
  /\ sockState[s] = "open"
  /\ inbox[s] = <<>>
  /\ hpc' = [hpc EXCEPT ![s] = "cleanup"]
  /\ UNCHANGED <<noteVars, registry, event, server, queue, msgSentVars, logSentVars,
                 mainVars, inputVars, pcListener, pcConsumer, closeVars,
                 envVars, bcVars, histVars>>

\* lines 131-142, the finally block: unregister under the lock, close the
\* socket, print "[DESCONECTADO]", log
HandlerCleanup(s) ==
  /\ hpc[s] = "cleanup"
  /\ registry' = [registry EXCEPT ![Owner(s)] = Without(@, s)]
  /\ sockState' = [sockState EXCEPT ![s] = "closed"]
  /\ closeCalls' = [closeCalls EXCEPT ![s] = @ + 1]
  /\ cleanups' = [cleanups EXCEPT ![s] = @ + 1]
  /\ hpc' = [hpc EXCEPT ![s] = "done"]
  /\ UNCHANGED <<noteVars, event, server, queue, msgSentVars, logSentVars, mainVars,
                 inputVars, pcListener, pcConsumer, sdClosed, envVars, bcVars,
                 said, bcBegun, bcDone, removed>>

\* ------------------------------------------------------------- broadcast
\* Where thread t is: a handler's place, or its node's consumer's.
PcOf(t) == IF t \in Socks THEN hpc[t] ELSE pcConsumer[NodeOf(t)]

\* Thread t moves to place p.
Goto(t, p) ==
  IF t \in Socks
  THEN hpc' = [hpc EXCEPT ![t] = p] /\ UNCHANGED pcConsumer
  ELSE pcConsumer' = [pcConsumer EXCEPT ![NodeOf(t)] = p] /\ UNCHANGED hpc

\* lines 146-147: sockets = list(self.peers.keys()), under the lock
BcSnapshot(t) ==
  /\ PcOf(t) = "bc_snap"
  /\ bsnap' = [bsnap EXCEPT ![t] = registry[NodeOf(t)]]
  /\ bidx' = [bidx EXCEPT ![t] = 1]
  /\ batt' = [batt EXCEPT ![t] = <<>>]
  /\ Goto(t, "bc_send")
  /\ UNCHANGED <<noteVars, registry, event, server, queue, msgSentVars, logSentVars,
                 mainVars, inputVars, pcListener, closeVars, envVars,
                 bmsg, bexcl, histVars>>

\* The socket the for loop of line 149 is at.
BcTarget(t) == bsnap[t][bidx[t]]
BcAt(t) == PcOf(t) = "bc_send" /\ bidx[t] <= Len(bsnap[t])

\* BcExcluded with the test of line 150 left out
BcExcluded_Never(t) == FALSE

\* line 150: the sender's own socket is passed over
BcExcluded(t) == bexcl[t] # NoSock /\ BcTarget(t) = bexcl[t]

\* lines 150-151: continue
BcSkip(t) ==
  /\ BcAt(t)
  /\ BcExcluded(t)
  /\ bidx' = [bidx EXCEPT ![t] = @ + 1]
  /\ UNCHANGED <<noteVars, registry, event, server, queue, msgSentVars, logSentVars,
                 mainVars, inputVars, pcListener, pcConsumer, hpc,
                 closeVars, envVars, bsnap, bmsg, bexcl, batt, histVars>>

\* line 154: peer_socket.send(message_bytes) returns; on a chain link the
\* bytes arrive at the other end
BcSendOk(t) ==
  /\ BcAt(t)
  /\ ~BcExcluded(t)
  /\ sockState[BcTarget(t)] = "open"
  /\ batt' = [batt EXCEPT ![t] = Append(@, <<BcTarget(t), bmsg[t], TRUE>>)]
  /\ inbox' = IF Remote(BcTarget(t)) = NoSock THEN inbox
              ELSE [inbox EXCEPT ![Remote(BcTarget(t))] = Append(@, bmsg[t])]
  /\ bidx' = [bidx EXCEPT ![t] = @ + 1]
  /\ UNCHANGED <<noteVars, registry, event, server, queue, msgSentVars, logSentVars,
                 mainVars, inputVars, pcListener, pcConsumer, hpc,
                 closeVars, envSent, bsnap, bmsg, bexcl, histVars>>

\* BcSendFail with the failure leaving the loop: the sockets after the
\* failed one get no send
BcSendFail_Abort(t) ==
  /\ BcAt(t)
  /\ ~BcExcluded(t)
  /\ batt' = [batt EXCEPT ![t] = Append(@, <<BcTarget(t), bmsg[t], FALSE>>)]
  /\ registry' = [registry EXCEPT ![NodeOf(t)] = Without(@, BcTarget(t))]
  /\ sockState' = [sockState EXCEPT ![BcTarget(t)] = "closed"]
  /\ closeCalls' = [closeCalls EXCEPT ![BcTarget(t)] = @ + 1]
  /\ removed' = removed \cup {BcTarget(t)}
  /\ bidx' = [bidx EXCEPT ![t] = Len(bsnap[t]) + 1]
  /\ UNCHANGED <<noteVars, event, server, queue, msgSentVars, logSentVars, mainVars,
                 inputVars, pcListener, pcConsumer, hpc, sdClosed, envVars,
                 bsnap, bmsg, bexcl, said, bcBegun, bcDone, cleanups>>

\* lines 154-164: send raises (the socket was closed, or the connection is
\* broken): pop the socket under the lock, close it, print "[PEER
\* REMOVIDO]", log, and go on with the next socket
BcSendFail(t) ==
  /\ BcAt(t)
  /\ ~BcExcluded(t)
  /\ batt' = [batt EXCEPT ![t] = Append(@, <<BcTarget(t), bmsg[t], FALSE>>)]
  /\ registry' = [registry EXCEPT ![NodeOf(t)] = Without(@, BcTarget(t))]
  /\ sockState' = [sockState EXCEPT ![BcTarget(t)] = "closed"]
  /\ closeCalls' = [closeCalls EXCEPT ![BcTarget(t)] = @ + 1]
  /\ removed' = removed \cup {BcTarget(t)}
  /\ bidx' = [bidx EXCEPT ![t] = @ + 1]
  /\ UNCHANGED <<noteVars, event, server, queue, msgSentVars, logSentVars, mainVars,
                 inputVars, pcListener, pcConsumer, hpc, sdClosed, envVars,
                 bsnap, bmsg, bexcl, said, bcBegun, bcDone, cleanups>>

\* broadcast returns: a handler is back at line 106, the consumer at 211
BcReturn(t) ==
  /\ PcOf(t) = "bc_send"
  /\ bidx[t] > Len(bsnap[t])
  /\ Goto(t, IF t \in Socks THEN "loop" ELSE "get")
  /\ bsnap' = [bsnap EXCEPT ![t] = <<>>]
  /\ bidx' = [bidx EXCEPT ![t] = 0]
  /\ bmsg' = [bmsg EXCEPT ![t] = <<>>]
  /\ bexcl' = [bexcl EXCEPT ![t] = NoSock]
  /\ batt' = [batt EXCEPT ![t] = <<>>]
  /\ bcDone' = IF t \in Socks THEN bcDone
               ELSE [bcDone EXCEPT ![NodeOf(t)] = Append(@, Conteudo(bmsg[t]))]
  /\ UNCHANGED <<noteVars, registry, event, server, queue, msgSentVars, logSentVars,
                 mainVars, inputVars, pcListener, closeVars, envVars,
                 said, bcBegun, removed, cleanups>>

\* -------------------------------------------------------- queue consumer
\* lines 210-220: get an item; None ends the thread, blank text is passed
\* over, other text is logged, prefixed with self.me and broadcast to all
ConsumerGet(n) ==
  /\ pcConsumer[n] = "get"
  /\ queue[n] # <<>>
  /\ LET got == QueueGet(queue[n])
         item == got[1]
     IN
       /\ queue' = [queue EXCEPT ![n] = got[2]]
       /\ IF item.kind = "none"
          THEN /\ pcConsumer' = [pcConsumer EXCEPT ![n] = "done"]
               /\ UNCHANGED <<bmsg, bexcl, bcBegun>>
          ELSE IF item.text = <<>>
          THEN UNCHANGED <<pcConsumer, bmsg, bexcl, bcBegun>>
          ELSE /\ bmsg' = [bmsg EXCEPT ![ConsumerTid(n)] = FormatMessage(n, item.text)]
               /\ bexcl' = [bexcl EXCEPT ![ConsumerTid(n)] = NoSock]
               /\ bcBegun' = [bcBegun EXCEPT ![n] = Append(@, item.text)]
               /\ pcConsumer' = [pcConsumer EXCEPT ![n] = "bc_snap"]
  /\ UNCHANGED <<noteVars, registry, event, server, msgSentVars, logSentVars, mainVars,
                 inputVars, pcListener, hpc, closeVars, envVars, bsnap, bidx,
                 batt, said, bcDone, removed, cleanups>>

\* ------------------------------------------------- listener and connector
\* The sockets node n can still get from accept() or connect().
FreeSocks(n) == {s \in Socks : Owner(s) = n /\ sockState[s] = "none"}
NewSock(n) == CHOOSE s \in FreeSocks(n) : \A r \in FreeSocks(n) : s <= r

\* threading.Thread(target=self.handle_client, args=(sock, addr)).start()
SpawnHandler(s) ==
  /\ sockState' = [sockState EXCEPT ![s] = "open"]
  /\ hpc' = [hpc EXCEPT ![s] = "spawned"]

\* line 169, while not self.shutdown_event.is_set(): the place the
\* listener goes to from the loop test.  The event is only ever set, and
\* accept() can always time out and lead to the test again, so the test
\* that follows an accept() is taken in the same step as its outcome.
ListenerLoopTest(n) == IF event[n] THEN "done" ELSE "accept"

\* line 169 for the first time (line 186 when the event is set)
ListenerCheck(n) ==
  /\ pcListener[n] = "check"
  /\ pcListener' = [pcListener EXCEPT ![n] = ListenerLoopTest(n)]
  /\ UNCHANGED <<noteVars, registry, event, server, queue, msgSentVars, logSentVars,
                 mainVars, inputVars, pcConsumer, hpc, closeVars,
                 envVars, bcVars, histVars>>

\* lines 171, 179-184: accept returns a connection; its handler is started
ListenerAccept(n) ==
  /\ pcListener[n] = "accept"
  /\ server[n] = "open"
  /\ FreeSocks(n) # {}
  /\ SpawnHandler(NewSock(n))
  /\ pcListener' = [pcListener EXCEPT ![n] = ListenerLoopTest(n)]
  /\ UNCHANGED <<noteVars, registry, event, server, queue, msgSentVars, logSentVars,
                 mainVars, inputVars, pcConsumer, closeCalls, sdClosed,
                 envVars, bcVars, histVars>>

\* lines 172-173: socket.timeout after one second: continue
ListenerTimeout(n) ==
  /\ pcListener[n] = "accept"
  /\ server[n] = "open"
  /\ pcListener' = [pcListener EXCEPT ![n] = ListenerLoopTest(n)]
  /\ UNCHANGED <<noteVars, registry, event, server, queue, msgSentVars, logSentVars,
                 mainVars, inputVars, pcConsumer, hpc, closeVars,
                 envVars, bcVars, histVars>>

\* ListenerError leaving the loop whether or not the event is set
ListenerError_Break(n) ==
  /\ pcListener[n] = "accept"
  /\ pcListener' = [pcListener EXCEPT ![n] = "done"]
  /\ UNCHANGED <<noteVars, registry, event, server, queue, msgSentVars, logSentVars,
                 mainVars, inputVars, pcConsumer, hpc, closeVars,
                 envVars, bcVars, histVars>>

\* lines 174-177: OSError (the listening socket was closed, or accept
\* failed for a moment): break when the event is set, else continue
ListenerError(n) ==
  /\ pcListener[n] = "accept"
  /\ pcListener' = [pcListener EXCEPT ![n] = ListenerLoopTest(n)]
  /\ UNCHANGED <<noteVars, registry, event, server, queue, msgSentVars, logSentVars,
                 mainVars, inputVars, pcConsumer, hpc, closeVars,
                 envVars, bcVars, histVars>>

\* ---------------------------------------------------------- input thread
\* line 358, while not self.shutdown_event.is_set(): the place the input
\* thread goes to from the loop test; taken in the same step as the line
\* that was read, as in ListenerLoopTest.
InputLoopTest(n) == IF event[n] THEN "sentinel_test" ELSE "input"

\* line 358 for the first time
InputCheck(n) ==
  /\ pcInput[n] = "check"
  /\ pcInput' = [pcInput EXCEPT ![n] = InputLoopTest(n)]
  /\ UNCHANGED <<noteVars, registry, event, server, queue, msgSentVars, logSentVars,
                 mainVars, nTyped, pcListener, pcConsumer, hpc,
                 closeVars, envVars, bcVars, histVars>>

\* lines 360-379: a line of text is put on the queue
InputText(n) ==
  /\ pcInput[n] = "input"
  /\ nTyped[n] < InputBound(n)
  /\ queue' = [queue EXCEPT ![n] = Append(@, TextItem(TextOf(nTyped[n] + 1)))]
  /\ nTyped' = [nTyped EXCEPT ![n] = @ + 1]
  /\ pcInput' = [pcInput EXCEPT ![n] = InputLoopTest(n)]
  /\ UNCHANGED <<noteVars, registry, event, server, msgSentVars, logSentVars, mainVars, pcListener, pcConsumer, hpc, closeVars, envVars,
                 bcVars, histVars>>

\* lines 366-377: a blank line, /help, /peers, an unknown or ill-formed
\* command: continue
InputOther(n) ==
  /\ pcInput[n] = "input"
  /\ pcInput' = [pcInput EXCEPT ![n] = InputLoopTest(n)]
  /\ UNCHANGED <<noteVars, registry, event, server, queue, msgSentVars, logSentVars,
                 mainVars, nTyped, pcListener, pcConsumer, hpc,
                 closeVars, envVars, bcVars, histVars>>

\* lines 261-264, 375-376: /quit sets the event and leaves the loop
InputQuit(n) ==
  /\ pcInput[n] = "input"
  /\ event' = [event EXCEPT ![n] = TRUE]
  /\ pcInput' = [pcInput EXCEPT ![n] = "sentinel_test"]
  /\ UNCHANGED <<noteVars, registry, server, queue, msgSentVars, logSentVars, mainVars, nTyped, pcListener, pcConsumer, hpc, closeVars,
                 envVars, bcVars, histVars>>

\* lines 274-286, 190-200: /connect, the dial succeeds: a handler is
\* started for the new socket
InputConnectOk(n) ==
  /\ pcInput[n] = "input"
  /\ FreeSocks(n) # {}
  /\ SpawnHandler(NewSock(n))
  /\ pcInput' = [pcInput EXCEPT ![n] = InputLoopTest(n)]
  /\ UNCHANGED <<noteVars, registry, event, server, queue, msgSentVars, logSentVars,
                 mainVars, nTyped, pcListener, pcConsumer, closeCalls, sdClosed,
                 envVars, bcVars, histVars>>

\* InputConnectFail starting the handler in spite of the failure
InputConnectFail_Spawns(n) ==
  /\ pcInput[n] = "input"
  /\ FreeSocks(n) # {}
  /\ sockState' = [sockState EXCEPT ![NewSock(n)] = "refused"]
  /\ hpc' = [hpc EXCEPT ![NewSock(n)] = "spawned"]
  /\ dialErrors' = dialErrors \cup {NewSock(n)}
  /\ pcInput' = [pcInput EXCEPT ![n] = InputLoopTest(n)]
  /\ UNCHANGED <<lockIO, registry, event, server, queue, msgSentVars,
                 logSentVars, mainVars, nTyped, pcListener, pcConsumer,
                 closeCalls, sdClosed, envVars, bcVars, histVars>>

\* lines 274-286, 190-192, 201-205: /connect, the dial fails: the socket
\* of line 191 was created and connect() raised; the except block prints
\* the "[ERRO]" line and logs; nothing closes the socket
InputConnectFail(n) ==
  /\ pcInput[n] = "input"
  /\ FreeSocks(n) # {}
  /\ sockState' = [sockState EXCEPT ![NewSock(n)] = "refused"]
  /\ dialErrors' = dialErrors \cup {NewSock(n)}
  /\ pcInput' = [pcInput EXCEPT ![n] = InputLoopTest(n)]
  /\ UNCHANGED <<lockIO, registry, event, server, queue, msgSentVars,
                 logSentVars, mainVars, nTyped, pcListener, pcConsumer, hpc,
                 closeCalls, sdClosed, envVars, bcVars, histVars>>

\* lines 361-364: EOFError or KeyboardInterrupt from input(): break
InputEOF(n) ==
  /\ pcInput[n] = "input"
  /\ pcInput' = [pcInput EXCEPT ![n] = "sentinel_test"]
  /\ UNCHANGED <<noteVars, registry, event, server, queue, msgSentVars, logSentVars,
                 mainVars, nTyped, pcListener, pcConsumer, hpc,
                 closeVars, envVars, bcVars, histVars>>

\* line 381: if not self.msg_sentinel_sent
InputSentinelTest(n) ==
  /\ pcInput[n] = "sentinel_test"
  /\ pcInput' = [pcInput EXCEPT ![n] =
                   IF msgSentinelSent[n] THEN "done" ELSE "sentinel_put"]
  /\ UNCHANGED <<noteVars, registry, event, server, queue, msgSentVars, logSentVars,
                 mainVars, nTyped, pcListener, pcConsumer, hpc,
                 closeVars, envVars, bcVars, histVars>>

\* msg_queue.put(None); msg_sentinel_sent = True
PutMsgSentinel(n) ==
  /\ queue' = [queue EXCEPT ![n] = Append(@, NoneItem)]
  /\ msgSentinelSent' = [msgSentinelSent EXCEPT ![n] = TRUE]
  /\ msgSentinels' = [msgSentinels EXCEPT ![n] = @ + 1]

\* lines 382-384
InputSentinelPut(n) ==
  /\ pcInput[n] = "sentinel_put"
  /\ PutMsgSentinel(n)
  /\ pcInput' = [pcInput EXCEPT ![n] = "done"]
  /\ UNCHANGED <<noteVars, registry, event, server, logSentVars, mainVars,
                 nTyped, pcListener, pcConsumer, hpc, closeVars, envVars, bcVars,
                 histVars>>

\* ----------------------------------------------------------- remote ends
\* The remote end of an open connection sends a payload.
EnvSend(s, b) ==
  /\ sockState[s] = "open"
  /\ envSent < MaxRemote
  /\ inbox' = [inbox EXCEPT ![s] = Append(@, b)]
  /\ envSent' = envSent + 1
  /\ UNCHANGED <<noteVars, registry, event, server, queue, msgSentVars, logSentVars,
                 mainVars, inputVars, pcListener, pcConsumer, hpc,
                 closeVars, bcVars, histVars>>

\* ----------------------------------------------- main thread, shutdown()
\* lines 318-326, the head of shutdown(): set the event, log when this
\* call set it, close the listening socket
ShutdownBegin(n) ==
  /\ event' = [event EXCEPT ![n] = TRUE]
  /\ server' = [server EXCEPT ![n] = "closed"]

\* lines 304-308, 311-312: every thread of start() has ended: shutdown()
MainJoinExit(n) ==
  /\ pcMain[n] = "join"
  /\ pcListener[n] = "done" /\ pcConsumer[n] = "done" /\ pcInput[n] = "done"
  /\ sdCall' = [sdCall EXCEPT ![n] = 1]
  /\ ShutdownBegin(n)
  /\ pcMain' = [pcMain EXCEPT ![n] = "sd_peers"]
  /\ UNCHANGED <<noteVars, registry, queue, msgSentVars, logSentVars, inputVars,
                 pcListener, pcConsumer, hpc, closeVars, envVars, bcVars,
                 histVars>>

\* lines 309-312: KeyboardInterrupt in the join loop: shutdown()
MainInterrupt(n) ==
  /\ pcMain[n] = "join"
  /\ sdCall' = [sdCall EXCEPT ![n] = 1]
  /\ ShutdownBegin(n)
  /\ pcMain' = [pcMain EXCEPT ![n] = "sd_peers"]
  /\ UNCHANGED <<noteVars, registry, queue, msgSentVars, logSentVars, inputVars,
                 pcListener, pcConsumer, hpc, closeVars, envVars, bcVars,
                 histVars>>

\* SdTeardown clearing the registry without closing the sockets
SdTeardown_NoClose(n) ==
  /\ pcMain[n] = "sd_peers"
  /\ registry' = [registry EXCEPT ![n] = <<>>]
  /\ pcMain' = [pcMain EXCEPT ![n] = "sd_msg_test"]
  /\ UNCHANGED <<noteVars, event, server, queue, msgSentVars, logSentVars, sdCall,
                 inputVars, pcListener, pcConsumer, hpc, closeVars, envVars,
                 bcVars, histVars>>

\* lines 328-338: under the lock, shut down and close every registered
\* socket, then clear the registry
SdTeardown(n) ==
  /\ pcMain[n] = "sd_peers"
  /\ sockState' = [s \in DOMAIN sockState |->
                     IF InSeq(registry[n], s) THEN "closed" ELSE sockState[s]]
  /\ closeCalls' = [s \in DOMAIN closeCalls |->
                      IF InSeq(registry[n], s) THEN closeCalls[s] + 1
                      ELSE closeCalls[s]]
  /\ lockIO' = lockIO \cup SeqSet(registry[n])
  /\ sdClosed' = sdClosed \cup SeqSet(registry[n])
  /\ registry' = [registry EXCEPT ![n] = <<>>]
  /\ pcMain' = [pcMain EXCEPT ![n] = "sd_msg_test"]
  /\ UNCHANGED <<dialErrors, event, server, queue, msgSentVars, logSentVars, sdCall, inputVars, pcListener, pcConsumer, hpc, envVars, bcVars,
                 histVars>>

\* line 340: if not self.msg_sentinel_sent
SdMsgTest(n) ==
  /\ pcMain[n] = "sd_msg_test"
  /\ pcMain' = [pcMain EXCEPT ![n] =
                  IF msgSentinelSent[n] THEN "sd_log" ELSE "sd_msg_put"]
  /\ UNCHANGED <<noteVars, registry, event, server, queue, msgSentVars, logSentVars,
                 sdCall, inputVars, pcListener, pcConsumer, hpc,
                 closeVars, envVars, bcVars, histVars>>

\* lines 341-343
SdMsgPut(n) ==
  /\ pcMain[n] = "sd_msg_put"
  /\ PutMsgSentinel(n)
  /\ pcMain' = [pcMain EXCEPT ![n] = "sd_log"]
  /\ UNCHANGED <<noteVars, registry, event, server, logSentVars, sdCall,
                 inputVars, pcListener, pcConsumer, hpc, closeVars, envVars,
                 bcVars, histVars>>

\* SdLog without the test of log_sentinel_sent
SdLog_NoFlag(n) ==
  /\ pcMain[n] = "sd_log"
  /\ logSentinels' = [logSentinels EXCEPT ![n] = @ + 1]
  /\ logSentinelSent' = [logSentinelSent EXCEPT ![n] = TRUE]
  /\ pcMain' = [pcMain EXCEPT ![n] = IF sdCall[n] = 1 THEN "joined" ELSE "fallback"]
  /\ UNCHANGED <<noteVars, registry, event, server, queue, msgSentVars, sdCall,
                 inputVars, pcListener, pcConsumer, hpc, closeVars, envVars,
                 bcVars, histVars>>

\* lines 347-353, and the return: log "Peer desligado." and put None on
\* log_queue unless that was done; the first call returns into start()'s
\* joins, the second into the entry point's finally
SdLog(n) ==
  /\ pcMain[n] = "sd_log"
  /\ IF logSentinelSent[n]
     THEN UNCHANGED logSentVars
     ELSE /\ logSentinels' = [logSentinels EXCEPT ![n] = @ + 1]
          /\ logSentinelSent' = [logSentinelSent EXCEPT ![n] = TRUE]
  /\ pcMain' = [pcMain EXCEPT ![n] = IF sdCall[n] = 1 THEN "joined" ELSE "fallback"]
  /\ UNCHANGED <<noteVars, registry, event, server, queue, msgSentVars, sdCall,
                 inputVars, pcListener, pcConsumer, hpc, closeVars, envVars,
                 bcVars, histVars>>

\* lines 313-314, 435-436: start() returns; the entry point calls
\* shutdown() again
MainSecondShutdown(n) ==
  /\ pcMain[n] = "joined"
  /\ sdCall' = [sdCall EXCEPT ![n] = 2]
  /\ ShutdownBegin(n)
  /\ pcMain' = [pcMain EXCEPT ![n] = "sd_peers"]
  /\ UNCHANGED <<noteVars, registry, queue, msgSentVars, logSentVars, inputVars,
                 pcListener, pcConsumer, hpc, closeVars, envVars, bcVars,
                 histVars>>

\* lines 437-441: the entry point's own put of None on log_queue
MainFallback(n) ==
  /\ pcMain[n] = "fallback"
  /\ logSentinels' = [logSentinels EXCEPT ![n] =
                        IF logSentinelSent[n] THEN @ ELSE @ + 1]
  /\ pcMain' = [pcMain EXCEPT ![n] = "exit"]
  /\ UNCHANGED <<noteVars, registry, event, server, queue, msgSentVars, logSentinelSent,
                 sdCall, inputVars, pcListener, pcConsumer, hpc,
                 closeVars, envVars, bcVars, histVars>>

\* ------------------------------------------------------- specifications
\* A session of node n from its thread's start to its end, without payloads.
SessionLife(n) ==
  \/ \E s \in Socks : Owner(s) = n /\ HandlerStart(s)
  \/ \E s \in Socks : Owner(s) = n /\ HandlerLoopCheck(s)
  \/ \E s \in Socks : Owner(s) = n /\ HandlerRecvClosed(s)
  \/ \E s \in Socks : Owner(s) = n /\ HandlerRecvRemoteEnd(s)
  \/ \E s \in Socks : Owner(s) = n /\ HandlerCleanup(s)

\* The broadcasts of the threads of node n.
BroadcastStep(n) ==
  \/ \E t \in Threads : NodeOf(t) = n /\ BcSnapshot(t)
  \/ \E t \in Threads : NodeOf(t) = n /\ BcSendOk(t)
  \/ \E t \in Threads : NodeOf(t) = n /\ BcReturn(t)

ListenerStep(n) ==
  \/ ListenerCheck(n)
  \/ ListenerAccept(n)
  \/ ListenerTimeout(n)
  \/ ListenerError(n)

InputStep(n) ==
  \/ InputCheck(n)
  \/ InputText(n)
  \/ InputOther(n)
  \/ InputQuit(n)
  \/ InputConnectOk(n)
  \/ InputConnectFail(n)
  \/ InputEOF(n)
  \/ InputSentinelTest(n)
  \/ InputSentinelPut(n)

MainStep(n) ==
  \/ MainJoinExit(n)
  \/ MainInterrupt(n)
  \/ SdTeardown(n)
  \/ SdMsgTest(n)
  \/ SdMsgPut(n)
  \/ SdLog(n)
  \/ MainSecondShutdown(n)
  \/ MainFallback(n)

\* Node N, from start() to the end of the entry point; its remote ends
\* send nothing.
Next ==
  \/ SessionLife("N")
  \/ ConsumerGet("N")
  \/ BroadcastStep("N")
  \/ \E t \in Threads : NodeOf(t) = "N" /\ BcSendFail(t)
  \/ ListenerStep("N")
  \/ InputStep("N")
  \/ MainStep("N")

Spec == Init /\ [][Next]_vars

\* The steps of shutdown() and of the entry point after it: the main
\* thread runs them without waiting for anything.
ShutdownStep(n) ==
  \/ SdTeardown(n)
  \/ SdMsgTest(n)
  \/ SdMsgPut(n)
  \/ SdLog(n)
  \/ MainSecondShutdown(n)
  \/ MainFallback(n)

\* The steps of the handler of s that wait for nothing outside the node.
\* recv returns on a socket shutdown() shut down (line 331), and on one a
\* broadcast closed after a failed send, the connection being broken; the
\* remote end need not close or send (HandlerRecvRemoteEnd is not here).
HandlerOwnStep(s) ==
  \/ HandlerStart(s)
  \/ HandlerLoopCheck(s)
  \/ HandlerRecvClosed(s)
  \/ HandlerCleanup(s)

\* The steps of the consumer thread: queue.get() returns once an item is
\* there, and a send returns or raises.
ConsumerStep(n) ==
  \/ ConsumerGet(n)
  \/ BcSnapshot(ConsumerTid(n))
  \/ BcSendOk(ConsumerTid(n))
  \/ BcSendFail(ConsumerTid(n))
  \/ BcReturn(ConsumerTid(n))

\* Node N with its threads scheduled: a thread that can take a step takes
\* one (the join loop of start() ends once its three threads have ended).  Nothing is assumed of the user (the input thread may stay in
\* input() for ever), of the remote ends, or of an interrupt coming.
SpecLive ==
  /\ Init
  /\ [][Next]_vars
  /\ WF_vars(MainJoinExit("N"))
  /\ WF_vars(ShutdownStep("N"))
  /\ WF_vars(ListenerStep("N"))
  /\ WF_vars(ConsumerStep("N"))
  /\ \A s \in LifeSocks : WF_vars(HandlerOwnStep(s))

\* Node F with its connections accepted and registered, the remote ends
\* sending payloads and going away.
InitFlood ==
  InitWith([n \in {"F"} |-> [i \in 1..FloodConns |-> 200 + i]])

NextFlood ==
  \/ \E s \in FloodSocks : HandlerLoopCheck(s)
  \/ \E s \in FloodSocks : HandlerRecvPayload(s)
  \/ \E s \in FloodSocks : HandlerRecvClosed(s)
  \/ \E s \in FloodSocks : HandlerRecvRemoteEnd(s)
  \/ \E s \in FloodSocks : HandlerCleanup(s)
  \/ BroadcastStep("F")
  \/ \E t \in Threads : NodeOf(t) = "F" /\ BcSkip(t)
  \/ \E t \in Threads : NodeOf(t) = "F" /\ BcSendFail(t)
  \/ \E s \in FloodSocks, b \in RemotePayloads : EnvSend(s, b)

SpecFlood == InitFlood /\ [][NextFlood]_vars

\* The chain A-B-C with its four sessions established (B registered its
\* two connections in either order), the user of A typing text.
InitChain ==
  \E regB \in {<<102, 103>>, <<103, 102>>} :
    InitWith([n \in ChainNodes |->
                IF n = "A" THEN <<101>>
                ELSE IF n = "B" THEN regB
                ELSE <<104>>])

NextChain ==
  \/ \E s \in ChainSocks : HandlerLoopCheck(s)
  \/ \E s \in ChainSocks : HandlerRecvPayload(s)
  \/ \E n \in ChainNodes : ConsumerGet(n)
  \/ \E n \in ChainNodes : BroadcastStep(n)
  \/ \E t \in Threads : NodeOf(t) \in ChainNodes /\ BcSkip(t)
  \/ InputCheck("A")
  \/ InputText("A")

SpecChain == InitChain /\ [][NextChain]_vars

\* ================================================================ claims
\* The sockets the running broadcast of thread t has passed, the sender's
\* own left out.
BcPassed(t) ==
  SelectSeq(SubSeq(bsnap[t], 1, bidx[t] - 1), LAMBDA s : s # bexcl[t])
BcAllSent(t) == \A i \in 1..Len(batt[t]) : batt[t][i][3]

\* C1: in every broadcast, at every point of its loop, the sockets of the
\* snapshot passed so far, the excluded one left out, have each had exactly
\* one send attempt, of the payload the broadcast was called with, in the
\* snapshot's order, and the excluded socket none; a socket whose send
\* failed is no longer registered, and the loop went on after it.  When
\* the loop ends without a failure and the excluded socket was among the N
\* of the snapshot, N-1 sockets were sent the payload.
C1_Broadcast ==
  \A t \in DOMAIN bsnap :
    PcOf(t) = "bc_send" =>
      /\ Len(batt[t]) = Len(BcPassed(t))
      /\ \A i \in 1..Len(batt[t]) :
           /\ batt[t][i][1] = BcPassed(t)[i]
           /\ batt[t][i][1] # bexcl[t]
           /\ batt[t][i][2] = bmsg[t]
           /\ ~batt[t][i][3] => ~InSeq(registry[NodeOf(t)], batt[t][i][1])
      /\ (bidx[t] > Len(bsnap[t]) /\ BcAllSent(t) /\ InSeq(bsnap[t], bexcl[t]))
           => Len(batt[t]) = Len(bsnap[t]) - 1

\* A broadcast over three registered connections, one of them the
\* sender's, has ended without a failure.
C1_Witness ==
  \E t \in FloodSocks :
    /\ PcOf(t) = "bc_send"
    /\ bidx[t] > Len(bsnap[t])
    /\ Len(bsnap[t]) >= 3
    /\ InSeq(bsnap[t], bexcl[t])
    /\ BcAllSent(t)
    /\ Len(batt[t]) = Len(bsnap[t]) - 1

\* The lines the user of A typed so far, as B and C print them.
ChainLines(k) == [i \in 1..k |-> <<Me("A"), TextOf(i)>>]
IsPrefix(p, q) == Len(p) <= Len(q) /\ \A i \in 1..Len(p) : p[i] = q[i]
ChainQuiet ==
  /\ queue["A"] = <<>>
  /\ pcConsumer["A"] = "get"
  /\ \A s \in ChainSocks : inbox[s] = <<>> /\ hpc[s] \in {"loop", "recv"}

\* C2: in the chain, with no send failure, B and C print each message of
\* A at most once and in A's order, and once all is delivered exactly
\* once; B's handler for A sends the bytes it received to C only; nothing
\* ever arrives at A, nothing arrives at B from C, and A prints nothing.
C2_ChainFlood ==
  /\ IsPrefix(said["B"], ChainLines(nTyped["A"]))
  /\ IsPrefix(said["C"], ChainLines(nTyped["A"]))
  /\ ChainQuiet => /\ said["B"] = ChainLines(nTyped["A"])
                   /\ said["C"] = ChainLines(nTyped["A"])
  /\ \A i \in 1..Len(batt[102]) :
       batt[102][i][1] = 103 /\ batt[102][i][2] = bmsg[102]
  /\ PcOf(102) \in {"bc_snap", "bc_send"} =>
       bmsg[102] = FormatMessage("A", said["B"][Len(said["B"])][2])
  /\ batt[104] = <<>> /\ batt[101] = <<>> /\ batt[103] = <<>>
  /\ inbox[101] = <<>> /\ inbox[103] = <<>>
  /\ said["A"] = <<>>

\* Two messages of A went through the chain and all is quiet.
C2_Witness ==
  /\ ChainQuiet
  /\ nTyped["A"] >= 2
  /\ said["C"] = ChainLines(nTyped["A"])
  /\ said["B"] = ChainLines(nTyped["A"])

\* A payload the claim calls no valid envelope: not UTF-8, or no delimiter.
C8_Invalid(b) ==
  \/ \E i \in 1..Len(b) : b[i] = BadByte
  \/ \A i \in 1..Len(b) : b[i] # Delim

\* C8: a step in which a handler reads a payload that is no valid
\* envelope starts no broadcast, prints no "disse" line, leaves the
\* registry and the sockets as they are, and takes the handler back to its
\* loop test, not to its cleanup.
C8_MalformedDiscarded ==
  [][\A s \in FloodSocks :
       (/\ hpc[s] = "recv"
        /\ inbox[s] # <<>>
        /\ inbox'[s] = Tail(inbox[s])
        /\ C8_Invalid(Head(inbox[s])))
       => /\ hpc'[s] = "loop"
          /\ UNCHANGED <<registry, said, sockState, bcVars, removed, cleanups>>]_vars

\* The one payload sent was read and nothing was printed for it: it was
\* discarded, and every session is still registered and receiving.
C8_Witness ==
  /\ envSent = 1
  /\ \A s \in FloodSocks : inbox[s] = <<>> /\ hpc[s] = "recv"
  /\ said["F"] = <<>>
  /\ Len(registry["F"]) = FloodConns

\* The texts typed at a node, in the order the input thread enqueued them.
Typed(k) == [i \in 1..k |-> TextOf(i)]

\* C9: at every node of the chain the texts whose broadcast began are the
\* first texts enqueued, in the order they were enqueued; the broadcasts
\* that returned are all but at most the last of them, and a broadcast has
\* begun and not returned only while the consumer is inside it.
C9_FifoBroadcast ==
  \A n \in ChainNodes :
    /\ IsPrefix(bcBegun[n], Typed(nTyped[n]))
    /\ IsPrefix(bcDone[n], bcBegun[n])
    /\ Len(bcBegun[n]) - Len(bcDone[n]) =
         (IF pcConsumer[n] \in {"bc_snap", "bc_send"} THEN 1 ELSE 0)

\* Two texts were enqueued at A and the broadcasts of both have returned.
C9_Witness == Len(bcDone["A"]) >= 2 /\ nTyped["A"] >= 2

ShutdownPost ==
  /\ event["N"]
  /\ server["N"] = "closed"
  /\ registry["N"] = <<>>
  /\ \A s \in sdClosed : sockState[s] = "closed"
  /\ msgSentinels["N"] >= 1

\* C3: every step in which the first call of shutdown() returns ends in a
\* state where the event is set, the listening socket is closed, the
\* registry is empty, every socket the teardown took from the registry is
\* closed, and a sentinel has been put on the message queue.
C3_FirstShutdownPost ==
  [][(pcMain["N"] = "sd_log" /\ sdCall["N"] = 1 /\ pcMain'["N"] = "joined")
       => ShutdownPost']_vars

\* C4: no step of the second call of shutdown(), from its entry to its
\* return, closes a socket, puts a sentinel, or changes the registry, the
\* event, the listening socket, the queue or the sentinel flags.
C4_SecondShutdownNoOp ==
  [][(\/ pcMain["N"] = "joined" /\ pcMain'["N"] # "joined"
      \/ sdCall["N"] = 2 /\ pcMain'["N"] # pcMain["N"])
       => UNCHANGED <<registry, event, server, queue, sockState, closeCalls,
                      msgSentVars, logSentVars>>]_vars

\* C5: close() is called at most once on every socket, whichever of the
\* handler, the shutdown teardown and the broadcast eviction come
\* together, and a socket whose handler has ended is closed by exactly one
\* call.
C5_ClosedExactlyOnce ==
  \A s \in LifeSocks :
    /\ closeCalls[s] <= 1
    /\ hpc[s] = "done" => sockState[s] = "closed" /\ closeCalls[s] = 1

\* C6: a handler that has left its loop, by whichever path, has run its
\* cleanup exactly once, and one still running has not run it; after the
\* cleanup the socket is not in the registry and is closed.
C6_CleanupOnce ==
  \A s \in LifeSocks :
    /\ cleanups[s] = (IF hpc[s] = "done" THEN 1 ELSE 0)
    /\ hpc[s] = "done" => ~InSeq(registry["N"], s) /\ sockState[s] = "closed"

\* A handler whose socket the shutdown teardown had closed has ended, with
\* one cleanup.
C6_Witness ==
  \E s \in LifeSocks : hpc[s] = "done" /\ cleanups[s] = 1 /\ s \in sdClosed

ThreadsEnded ==
  /\ pcListener["N"] = "done"
  /\ pcConsumer["N"] = "done"
  /\ \A s \in LifeSocks : hpc[s] \in {"none", "done"}

\* C7: once shutdown() has been called, the listener, the consumer and
\* every handler end within finitely many steps, with no input from the
\* user, no interrupt and no action of the remote ends.
C7_ThreadsTerminate == (sdCall["N"] >= 1) ~> ThreadsEnded

\* After shutdown() the three kinds of thread have ended, a handler whose
\* socket the teardown closed among them.
C7_Witness ==
  /\ sdCall["N"] >= 1
  /\ ThreadsEnded
  /\ \E s \in LifeSocks : hpc[s] = "done" /\ s \in sdClosed

\* C10: when the consumer and the input thread have both ended, every
\* text line the input thread enqueued has been broadcast, once and in
\* order.
C10_EveryTextBroadcast ==
  (pcConsumer["N"] = "done" /\ pcInput["N"] = "done")
    => bcBegun["N"] = Typed(nTyped["N"])

\* The sockets of node N whose registration (lines 102-103) has completed
\* and that no step has unregistered since: not the handler's finally
\* block, not a broadcast's pop, not the clear of shutdown().
LiveHandles ==
  {s \in LifeSocks : /\ hpc[s] \notin {"none", "spawned", "done"}
                     /\ s \notin removed
                     /\ s \notin sdClosed}
NoDup(seq) == \A i, j \in 1..Len(seq) : seq[i] = seq[j] => i = j

\* C11: after every step the registry of N holds exactly the sockets
\* registered and not unregistered, each once; and every step that takes a
\* broadcast's snapshot yields exactly the sockets registered and not
\* unregistered when the step began, each once.
C11_SnapshotConsistent ==
  [][/\ SeqSet(registry'["N"]) = LiveHandles'
     /\ NoDup(registry'["N"])
     /\ \A t \in DOMAIN bsnap :
          (NodeOf(t) = "N" /\ PcOf(t) = "bc_snap" /\ PcOf(t)' = "bc_send")
            => SeqSet(bsnap'[t]) = LiveHandles /\ NoDup(bsnap'[t])]_vars

\* The consumer of N has just taken a snapshot that holds a registered
\* socket, after a socket's registration.
C11_Witness ==
  /\ pcConsumer["N"] = "bc_send"
  /\ bidx[ConsumerTid("N")] = 1
  /\ Len(bsnap[ConsumerTid("N")]) >= 1
  /\ SeqSet(bsnap[ConsumerTid("N")]) = LiveHandles

\* C12: a step in which a dial fails leaves the registry as it is, starts
\* no handler, reports the error, and takes the input thread on to its
\* loop test; and the socket of a failed dial is never registered and
\* never gets a handler afterwards.
C12_FailedDial ==
  [][\A s \in LifeSocks :
       /\ (sockState[s] = "none" /\ sockState'[s] = "refused")
            => /\ registry' = registry
               /\ hpc' = hpc
               /\ s \in dialErrors'
               /\ pcInput'["N"] =
                    (IF event["N"] THEN "sentinel_test" ELSE "input")
       /\ sockState'[s] = "refused"
            => hpc'[s] = "none" /\ ~InSeq(registry'["N"], s)]_vars

\* A dial has failed and the input thread is back at input().
C12_Witness ==
  \E s \in LifeSocks :
    /\ sockState[s] = "refused"
    /\ s \in dialErrors
    /\ hpc[s] = "none"
    /\ pcInput["N"] = "input"

\* C13: None is put on log_queue at most once, and once the first
\* shutdown() has returned it has been put exactly once: the second
\* shutdown() and the entry point's fallback add none.
C13_LogSentinelOnce ==
  /\ logSentinels["N"] <= 1
  /\ (pcMain["N"] \in {"joined", "fallback", "exit"} \/ sdCall["N"] = 2)
       => logSentinels["N"] = 1
  /\ logSentinelSent["N"] <=> logSentinels["N"] = 1

\* The entry point has ended after two calls of shutdown() and its
\* fallback, with one None on log_queue.
C13_Witness ==
  pcMain["N"] = "exit" /\ sdCall["N"] = 2 /\ logSentinels["N"] = 1

\* C14: while the consumer of a chain node broadcasts a text line, the
\* payload is the node's identity, the byte "|" and the line, nothing is
\* excluded, every send attempt carries exactly that payload, and when
\* the loop has ended every socket of the snapshot has had its attempt.
C14_LocalEnvelope ==
  \A n \in ChainNodes :
    LET c == ConsumerTid(n) IN
    pcConsumer[n] \in {"bc_snap", "bc_send"} =>
      /\ bmsg[c] = Me(n) \o <<124>> \o bcBegun[n][Len(bcBegun[n])]
      /\ bexcl[c] = 0
      /\ \A i \in 1..Len(batt[c]) :
           batt[c][i][2] = Me(n) \o <<124>> \o bcBegun[n][Len(bcBegun[n])]
      /\ (pcConsumer[n] = "bc_send" /\ bidx[c] > Len(bsnap[c]))
           => [i \in 1..Len(batt[c]) |-> batt[c][i][1]] = bsnap[c]

\* A has sent the line "1" to its one connection as the bytes "A|1".
C14_Witness ==
  /\ pcConsumer["A"] = "bc_send"
  /\ bidx[ConsumerTid("A")] > Len(bsnap[ConsumerTid("A")])
  /\ batt[ConsumerTid("A")] = <<<<101, <<65, 124, 49>>, TRUE>>>>

\* C15: no socket is ever shut down or closed, sent on or received from
\* by a thread that holds self.lock.
C15_NoSocketOpUnderLock == lockIO = {}

\* C16: a step in which a broadcast's send fails on a socket that the
\* teardown of shutdown() had closed prints no "[PEER REMOVIDO]" line and
\* logs no "Peer removido" entry.
C16_ShutdownErrorsSuppressed ==
  [][\A t \in DOMAIN bsnap :
       (/\ BcAt(t)
        /\ BcTarget(t) \in sdClosed
        /\ batt'[t] = Append(batt[t], <<BcTarget(t), bmsg[t], FALSE>>))
       => removed' = removed]_vars

\* C17: once None has been put on log_queue, no step puts an entry on it:
\* no handler logs "Conexão encerrada", no broadcast logs "Peer removido",
\* the consumer logs no "Mensagem local enviada".
C17_NoLogAfterSentinel ==
  [][logSentinels["N"] >= 1 => UNCHANGED <<cleanups, removed, bcBegun>>]_vars

\* C18: the listener has left its loop only if the event is set; until
\* then it is at its loop test or at accept(), whatever timeouts and
\* errors accept() has had; and every connection has a handler thread of
\* its own, which the listener does not wait for: the listener is never
\* anywhere but at its test, at accept() or at its end.
C18_ListenerLoop ==
  /\ pcListener["N"] \in {"check", "accept", "done"}
  /\ pcListener["N"] = "done" => event["N"]
  /\ ~event["N"] => pcListener["N"] \in {"check", "accept"}
  /\ \A s \in LifeSocks : sockState[s] \in {"open", "closed"} => hpc[s] # "none"

\* The listener accepted a connection and is at accept() again while the
\* connection's handler has not yet taken a step; the user typed nothing.
C18_Witness ==
  /\ pcListener["N"] = "accept"
  /\ ~event["N"]
  /\ pcInput["N"] = "check"
  /\ \E s \in LifeSocks : hpc[s] = "spawned" /\ sockState[s] = "open"

\* C19: once the input thread has ended with the event not set (end of
\* input, no /quit), the event is eventually set, shutdown() is called,
\* and the listener, the consumer and all handlers end.
C19_EofShutsDown ==
  (pcInput["N"] = "done" /\ ~event["N"])
    ~> (event["N"] /\ sdCall["N"] >= 1 /\ ThreadsEnded)

\* C20: None is put on msg_queue at most once, by the input thread or by
\* shutdown(), never by both.
C20_OneMsgSentinel == msgSentinels["N"] <= 1

====
